---- MODULE Spec2Model ----
(***************************************************************************)
(* Multi-round extraction with voting / confidence-weighted merging:       *)
(* AdvancedCrawlerAgent (crawler_agent/agents/advanced.py) and ExpertAgent *)
(* (crawler_agent/agents/expert.py).                                       *)
(*                                                                         *)
(* Strings are sequences of one-character strings, so that strip(),        *)
(* lower(), substring search, split() and join are computed, not assumed.  *)
(* JSON values are tagged records; a dict is an association list that      *)
(* keeps Python's insertion order.  A confidence is an exact rational      *)
(* [n, d] (d > 0).                                                         *)
(***************************************************************************)
EXTENDS Integers, Sequences, FiniteSets, TLC

VARIABLES
    agent,            \* "advanced" | "expert" | "validator": the code under run
    max_retries,      \* self.max_retries
    voting_rounds,    \* self.voting_rounds
    config,           \* the FieldConfig loaded by process_html
    pc,               \* position inside process_html
    round_num,        \* loop variable of process_html
    attempt,          \* loop variable of the retry loop
    best_extraction,  \* local of the retry loop
    best_confidence,  \* local of the retry loop
    extracted,        \* local of the retry loop: the last Extraction Call's reply
    is_valid,         \* local of the retry loop: last validation outcome
    confidence,       \* local of the retry loop: last validation outcome
    issues,           \* last validation outcome (Expert)
    extractions,      \* the candidates collected by process_html
    result,           \* what process_html returned (or raised)
    round_config,     \* the config handed to the retry loop of this round
    calls,            \* number of Extraction Calls issued in this run
    round_calls,      \* number of Extraction Calls issued in this round
    round_replied,    \* some Extraction Call of this round returned a reply
    round_positive,   \* some reply of this round could be held (see attempt)
    got_reply,        \* some Extraction Call of this run returned a reply
    reconciler_calls, \* number of invocations of the Reconciler in this run
    valid_fields,     \* local of _validate_field_quality at its return
    quality_score,    \* local of _validate_field_quality at its return
    round_valid,      \* some attempt of this round was judged valid
    best_valid        \* the held best was judged valid

vars == <<agent, max_retries, voting_rounds, config, pc, round_num, attempt,
          best_extraction, best_confidence, extracted, is_valid, confidence,
          issues, extractions, result, round_config, calls, round_calls,
          round_replied, round_positive, got_reply, reconciler_calls,
          valid_fields, quality_score, round_valid, best_valid>>

----------------------------------------------------------------------------
(* Bounds of the model *)

MaxRetries == 3

MaxRounds == 2

\* number of field names the validator's schemas and results are drawn over
MaxFields == 2

\* a run of Advanced with one attempt per round, long enough to hold a
\* round of index >= 2
EmphasisRounds == MaxRounds + 1

----------------------------------------------------------------------------
(* Rationals: Python floats compared exactly *)

Rat(n, d) == [n |-> n, d |-> d]

RGT(a, b) == a.n * b.d > b.n * a.d

RGE(a, b) == a.n * b.d >= b.n * a.d

REQ(a, b) == a.n * b.d = b.n * a.d

Zero == Rat(0, 1)

One == Rat(1, 1)

InUnit(a) == RGE(a, Zero) /\ RGE(One, a)

----------------------------------------------------------------------------
(* Strings as character sequences *)

Whitespace == {" ", "\t", "\n"}

UpperToLower ==
    [c \in {"A", "D", "E", "F", "L", "N", "O", "R", "T", "U"} |->
        CASE c = "A" -> "a" [] c = "D" -> "d" [] c = "E" -> "e"
          [] c = "F" -> "f" [] c = "L" -> "l" [] c = "N" -> "n"
          [] c = "O" -> "o" [] c = "R" -> "r" [] c = "T" -> "t"
          [] c = "U" -> "u"]

\* str.lower()
lower(s) ==
    [i \in 1..Len(s) |->
        IF s[i] \in DOMAIN UpperToLower THEN UpperToLower[s[i]] ELSE s[i]]

\* str.strip()
strip(s) ==
    LET keep == {i \in 1..Len(s) : s[i] \notin Whitespace}
    IN  IF keep = {} THEN <<>>
        ELSE LET lo == CHOOSE i \in keep : \A j \in keep : i <= j
                 hi == CHOOSE i \in keep : \A j \in keep : j <= i
             IN  SubSeq(s, lo, hi)

\* sub in s
contains(s, sub) ==
    \E i \in 1..(Len(s) - Len(sub) + 1) :
        \A j \in 1..Len(sub) : s[i + j - 1] = sub[j]

error_indicators ==
    << <<"n", "u", "l", "l">>,
       <<"u", "n", "d", "e", "f", "i", "n", "e", "d">>,
       <<"n", "o", "t", " ", "f", "o", "u", "n", "d">>,
       <<"n", "/", "a">>,
       <<"n", "o", " ", "d", "a", "t", "a">>,
       <<"e", "r", "r", "o", "r">> >>

\* any(indicator in value.lower() for indicator in error_indicators)
has_error_indicator(s) ==
    LET value_lower == lower(s)
    IN  \E k \in 1..Len(error_indicators) :
            contains(value_lower, error_indicators[k])

----------------------------------------------------------------------------
(* JSON values *)

None == [t |-> "none"]

Str(s) == [t |-> "str", s |-> s]

Num(n) == [t |-> "num", n |-> n]

\* a list is an opaque leaf; only its length is kept
Lst(n) == [t |-> "list", len |-> n]

\* a dict with keys ks[i] and values vs[i], in insertion order
Dict(ks, vs) == [t |-> "dict", ks |-> ks, vs |-> vs]

EmptyDict == Dict(<<>>, <<>>)

is_dict(v) == v.t = "dict"

is_str(v) == v.t = "str"

is_number(v) == v.t = "num"

\* Python truthiness: bool(v)
truthy(v) ==
    CASE v.t = "none" -> FALSE
      [] v.t = "str"  -> Len(v.s) > 0
      [] v.t = "num"  -> v.n # 0
      [] v.t = "list" -> v.len > 0
      [] v.t = "dict" -> Len(v.ks) > 0

has_key(d, k) == \E i \in 1..Len(d.ks) : d.ks[i] = k

\* d.get(k): None when the key is absent
dict_get(d, k) ==
    IF has_key(d, k)
    THEN d.vs[CHOOSE i \in 1..Len(d.ks) : d.ks[i] = k]
    ELSE None

\* d[k] = v
dict_set(d, k, v) ==
    IF has_key(d, k)
    THEN LET i == CHOOSE j \in 1..Len(d.ks) : d.ks[j] = k
         IN  Dict(d.ks, [d.vs EXCEPT ![i] = v])
    ELSE Dict(Append(d.ks, k), Append(d.vs, v))

----------------------------------------------------------------------------
(* FieldConfig *)

FieldSpec(name, type, required) ==
    [name |-> name, type |-> type, required |-> required]

\* config: object_name, function_description and the ordered "fields" mapping.
\* function_description is kept as the number of completeness suffixes that
\* have been appended to the caller's text; has_function_name tells whether
\* the key "function_name" is in the mapping.
FieldConfig(object_name, fields) ==
    [object_name |-> object_name, function_description |-> 0, fields |-> fields,
     has_function_name |-> TRUE]

\* create_function_declaration_from_config raises KeyError on a missing key
declaration_raises(cfg) == ~cfg.has_function_name

----------------------------------------------------------------------------
(* ExpertAgent._validate_field_quality *)

\* is_valid = confidence >= 0.6 and len(issues) <= 2
ValidConfidence == Rat(6, 10)

MaxIssues == 2

\* the object the validator scores: the value under object_name, else the
\* value under the only top-level key, else the reply itself
validated_object(data_dict, cfg) ==
    IF has_key(data_dict, cfg.object_name)
    THEN dict_get(data_dict, cfg.object_name)
    ELSE IF is_dict(data_dict) /\ Len(data_dict.ks) = 1
         THEN data_dict.vs[1]
         ELSE data_dict

\* variant: the two upper tiers exchanged
string_length_score_swapped(n) ==
    IF n > 3 THEN 70 ELSE IF n > 0 THEN 100 ELSE 30

\* score (in hundredths) of a present string value of a string field
string_length_score(n) ==
    IF n > 3 THEN 100 ELSE IF n > 0 THEN 70 ELSE 30

\* the issue recorded with string_length_score, "" for none
string_length_issue(n) ==
    IF n > 3 THEN "" ELSE IF n > 0 THEN "too_short" ELSE "empty"

\* field-specific validation of a present value: score in hundredths
type_score(field_type, v) ==
    IF field_type = "number"
    THEN IF is_number(v) THEN 100 ELSE 50
    ELSE IF field_type = "string"
         THEN IF is_str(v) THEN string_length_score(Len(strip(v.s))) ELSE 50
         ELSE 0

type_issue(field_type, v) ==
    IF field_type = "number"
    THEN IF is_number(v) THEN "" ELSE "not_number"
    ELSE IF field_type = "string"
         THEN IF is_str(v) THEN string_length_issue(Len(strip(v.s)))
              ELSE "not_string"
         ELSE ""

\* variant: the penalty subtracted instead of multiplied
error_penalty_subtracts(score) == score - 30

\* field_score *= 0.3
error_penalty(score) == (score * 3) \div 10

add_issue(iss, kind, name) ==
    IF kind = "" THEN iss ELSE Append(iss, <<kind, name>>)

\* variant: a required field counts as missing only when its value is None
validate_field_missing_is_none(acc, fs, data) ==
    LET field_value == IF is_dict(data) THEN dict_get(data, fs.name) ELSE None
    IN  IF fs.required /\ field_value = None
        THEN [acc EXCEPT !.issues = Append(@, <<"missing", fs.name>>)]
        ELSE IF field_value # None
             THEN LET s0   == type_score(fs.type, field_value)
                      i0   == add_issue(acc.issues,
                                        type_issue(fs.type, field_value), fs.name)
                      bad  == is_str(field_value)
                              /\ has_error_indicator(field_value.s)
                  IN  [issues        |-> IF bad
                                         THEN Append(i0, <<"error_text", fs.name>>)
                                         ELSE i0,
                       valid_fields  |-> acc.valid_fields + 1,
                       quality_score |-> acc.quality_score
                                         + (IF bad THEN error_penalty(s0) ELSE s0)]
             ELSE acc

\* one iteration of "for field_name, field_config in config['fields'].items()"
validate_field(acc, fs, data) ==
    LET field_value == IF is_dict(data) THEN dict_get(data, fs.name) ELSE None
    IN  IF fs.required /\ ~truthy(field_value)
        THEN [acc EXCEPT !.issues = Append(@, <<"missing", fs.name>>)]
        ELSE IF field_value # None
             THEN LET s0   == type_score(fs.type, field_value)
                      i0   == add_issue(acc.issues,
                                        type_issue(fs.type, field_value), fs.name)
                      bad  == is_str(field_value)
                              /\ has_error_indicator(field_value.s)
                  IN  [issues        |-> IF bad
                                         THEN Append(i0, <<"error_text", fs.name>>)
                                         ELSE i0,
                       valid_fields  |-> acc.valid_fields + 1,
                       quality_score |-> acc.quality_score
                                         + (IF bad THEN error_penalty(s0) ELSE s0)]
             ELSE acc

RECURSIVE validate_loop(_, _, _, _)
validate_loop(i, fields, data, acc) ==
    IF i > Len(fields) THEN acc
    ELSE validate_loop(i + 1, fields, data, validate_field(acc, fields[i], data))

\* variant: the score averaged over the fields present in the result
overall_confidence_present(score_sum, total_fields, present) ==
    Rat(score_sum, 100 * present)

\* confidence = quality_score / total_fields
overall_confidence(score_sum, total_fields, present) ==
    Rat(score_sum, 100 * total_fields)

\* is_valid = confidence >= 0.6 and len(issues) <= 2
overall_is_valid(conf, iss) ==
    RGE(conf, ValidConfidence) /\ Len(iss) <= MaxIssues

\* variant: an empty schema is vacuously satisfied
no_fields_outcome_vacuous(iss) ==
    [is_valid |-> TRUE, confidence |-> One, issues |-> iss]

\* total_fields == 0: confidence = 0.0, is_valid = False
no_fields_outcome(iss) ==
    [is_valid |-> FALSE, confidence |-> Zero, issues |-> iss]

\* issues, valid_fields and quality_score when the loop over config["fields"]
\* has ended (all empty when the function returned before the loop)
validator_locals(extracted_data, cfg) ==
    LET empty == [issues |-> <<>>, valid_fields |-> 0, quality_score |-> 0]
    IN  IF ~truthy(extracted_data) THEN empty
        ELSE validate_loop(1, cfg.fields, validated_object(extracted_data, cfg),
                           empty)

validate_field_quality(extracted_data, cfg) ==
    IF ~truthy(extracted_data)
    THEN [is_valid |-> FALSE, confidence |-> Zero,
          issues |-> << <<"no_data", <<>> >> >>]
    ELSE LET total_fields == Len(cfg.fields)
             acc == validator_locals(extracted_data, cfg)
         IN  IF total_fields > 0
             THEN LET conf == overall_confidence(acc.quality_score, total_fields,
                                                 acc.valid_fields)
                  IN  [is_valid |-> overall_is_valid(conf, acc.issues),
                       confidence |-> conf, issues |-> acc.issues]
             ELSE no_fields_outcome(acc.issues)

----------------------------------------------------------------------------
(* An exception that escapes process_html *)

Raised == [t |-> "raised"]

----------------------------------------------------------------------------
(* _flatten_dict / _unflatten_dict (identical in both agents) *)

sep == "."

\* new_key without its parent: k alone at every level
new_key_child_only(parent_key, k) == k

\* f"{parent_key}{sep}{k}" if parent_key else k
new_key(parent_key, k) ==
    IF Len(parent_key) > 0 THEN parent_key \o <<sep>> \o k ELSE k

\* the list "items" built by _flatten_dict, as <<key, value>> pairs
RECURSIVE flatten_items(_, _, _)
flatten_items(data, parent_key, i) ==
    IF i > Len(data.ks) THEN <<>>
    ELSE LET k == new_key(parent_key, data.ks[i])
             v == data.vs[i]
         IN  (IF is_dict(v) THEN flatten_items(v, k, 1) ELSE << <<k, v>> >>)
             \o flatten_items(data, parent_key, i + 1)

\* dict(items): a later pair overwrites the value of an earlier equal key
RECURSIVE dict_of_items(_, _, _)
dict_of_items(items, i, acc) ==
    IF i > Len(items) THEN acc
    ELSE dict_of_items(items, i + 1, dict_set(acc, items[i][1], items[i][2]))

flatten_dict(data) == dict_of_items(flatten_items(data, <<>>, 1), 1, EmptyDict)

\* key.split(sep)
RECURSIVE split(_)
split(key) ==
    IF \A i \in 1..Len(key) : key[i] # sep THEN <<key>>
    ELSE LET j == CHOOSE i \in 1..Len(key) :
                      key[i] = sep /\ \A h \in 1..(i - 1) : key[h] # sep
         IN  <<SubSeq(key, 1, j - 1)>> \o split(SubSeq(key, j + 1, Len(key)))

\* the walk "for part in parts[:-1]: ...; d[parts[-1]] = value" on the nested
\* dict d; Raised when it steps into a value that is not a dict (TypeError)
RECURSIVE unflatten_put(_, _, _)
unflatten_put(d, parts, value) ==
    IF ~is_dict(d) THEN Raised
    ELSE IF Len(parts) = 1 THEN dict_set(d, parts[1], value)
    ELSE LET sub == IF has_key(d, parts[1]) THEN dict_get(d, parts[1])
                    ELSE EmptyDict
             r   == unflatten_put(sub, Tail(parts), value)
         IN  IF r = Raised THEN Raised ELSE dict_set(d, parts[1], r)

RECURSIVE unflatten_loop(_, _, _)
unflatten_loop(data, i, acc) ==
    IF acc = Raised \/ i > Len(data.ks) THEN acc
    ELSE unflatten_loop(data, i + 1,
                        unflatten_put(acc, split(data.ks[i]), data.vs[i]))

unflatten_dict(data) == unflatten_loop(data, 1, EmptyDict)

----------------------------------------------------------------------------
(* AdvancedCrawlerAgent._vote_on_extractions *)

\* the extractions that are truthy, flattened
RECURSIVE flattened_extractions(_, _)
flattened_extractions(exs, i) ==
    IF i > Len(exs) THEN <<>>
    ELSE (IF truthy(exs[i]) THEN <<flatten_dict(exs[i])>> ELSE <<>>)
         \o flattened_extractions(exs, i + 1)

all_keys(flat) == UNION {{flat[i].ks[j] : j \in 1..Len(flat[i].ks)} : i \in 1..Len(flat)}

\* the non-None values of key over the flattened extractions, in input order
RECURSIVE values_of(_, _, _)
values_of(flat, key, i) ==
    IF i > Len(flat) THEN <<>>
    ELSE (IF has_key(flat[i], key) /\ dict_get(flat[i], key) # None
          THEN <<dict_get(flat[i], key)>> ELSE <<>>)
         \o values_of(flat, key, i + 1)

count_of(values, v) == Cardinality({i \in 1..Len(values) : values[i] = v})

\* the last-seen value of maximal count
most_common_last_seen(values) ==
    LET best == CHOOSE i \in 1..Len(values) :
                    /\ \A j \in 1..Len(values) :
                           count_of(values, values[j]) <= count_of(values, values[i])
                    /\ \A j \in (i + 1)..Len(values) :
                           count_of(values, values[j]) < count_of(values, values[i])
    IN  values[best]

\* Counter(values).most_common(1)[0][0]: the first-seen value of maximal count
most_common(values) ==
    LET best == CHOOSE i \in 1..Len(values) :
                    /\ \A j \in 1..Len(values) :
                           count_of(values, values[j]) <= count_of(values, values[i])
                    /\ \A j \in 1..(i - 1) :
                           count_of(values, values[j]) < count_of(values, values[i])
    IN  values[best]

voted_value(values) ==
    IF \A i \in 1..Len(values) : is_str(values[i]) \/ is_number(values[i])
    THEN most_common(values)
    ELSE values[1]

\* "for key in all_keys": order is the iteration order of the set all_keys
RECURSIVE vote_loop(_, _, _, _)
vote_loop(flat, order, i, voted_result) ==
    IF i > Len(order) THEN voted_result
    ELSE LET values == values_of(flat, order[i], 1)
         IN  vote_loop(flat, order, i + 1,
                       IF values # <<>>
                       THEN dict_set(voted_result, order[i], voted_value(values))
                       ELSE voted_result)

\* the orders in which a set of keys may be iterated
key_orders(keys) ==
    {o \in [1..Cardinality(keys) -> keys] :
        \A i, j \in 1..Cardinality(keys) : i # j => o[i] # o[j]}

vote_on_extractions(exs, order) ==
    IF exs = <<>> THEN None
    ELSE LET flat == flattened_extractions(exs, 1)
         IN  IF flat = <<>> THEN None
             ELSE unflatten_dict(vote_loop(flat, order, 1, EmptyDict))

----------------------------------------------------------------------------
(* ExpertAgent._intelligent_merge *)

\* extractions.sort(key=lambda x: x[1], reverse=True): stable, descending
\* variant: a candidate goes before those of equal confidence
RECURSIVE insert_before_equal(_, _)
insert_before_equal(sorted, x) ==
    IF sorted = <<>> THEN <<x>>
    ELSE IF RGE(x.confidence, Head(sorted).confidence)
         THEN <<x>> \o sorted
         ELSE <<Head(sorted)>> \o insert_before_equal(Tail(sorted), x)

RECURSIVE insert_by_confidence(_, _)
insert_by_confidence(sorted, x) ==
    IF sorted = <<>> THEN <<x>>
    ELSE IF RGT(x.confidence, Head(sorted).confidence)
         THEN <<x>> \o sorted
         ELSE <<Head(sorted)>> \o insert_by_confidence(Tail(sorted), x)

RECURSIVE sort_by_confidence(_, _, _)
sort_by_confidence(exs, i, acc) ==
    IF i > Len(exs) THEN acc
    ELSE sort_by_confidence(exs, i + 1, insert_by_confidence(acc, exs[i]))

\* the object the merge takes from one extraction
merged_object(data_dict, cfg) ==
    IF has_key(data_dict, cfg.object_name)
    THEN dict_get(data_dict, cfg.object_name)
    ELSE IF Len(data_dict.ks) = 1
         THEN data_dict.vs[1]
         ELSE data_dict

RECURSIVE processed_data(_, _, _)
processed_data(exs, cfg, i) ==
    IF i > Len(exs) THEN <<>>
    ELSE (IF truthy(exs[i].extraction)
          THEN << [data |-> merged_object(exs[i].extraction, cfg),
                   confidence |-> exs[i].confidence] >>
          ELSE <<>>)
         \o processed_data(exs, cfg, i + 1)

\* without the filling of a missing field
should_replace_strings_only(current_value, field_value) ==
    /\ is_str(current_value) /\ is_str(field_value)
    /\ \/ has_error_indicator(current_value.s)
       \/ Len(strip(field_value.s)) > Len(strip(current_value.s))

\* a string of equal trimmed length replaces too
should_replace_not_shorter(current_value, field_value) ==
    \/ current_value = None /\ field_value # None
    \/ /\ is_str(current_value) /\ is_str(field_value)
       /\ \/ has_error_indicator(current_value.s)
          \/ Len(strip(field_value.s)) >= Len(strip(current_value.s))

\* an error text gives way to a value of any type
should_replace_any_error(current_value, field_value) ==
    \/ current_value = None /\ field_value # None
    \/ is_str(current_value) /\ has_error_indicator(current_value.s)
    \/ /\ is_str(current_value) /\ is_str(field_value)
       /\ Len(strip(field_value.s)) > Len(strip(current_value.s))

\* variant: a string that holds an error marker never replaces a present value
should_replace_clean_value(current_value, field_value) ==
    \/ current_value = None /\ field_value # None
    \/ /\ is_str(current_value) /\ is_str(field_value)
       /\ ~has_error_indicator(field_value.s)
       /\ \/ has_error_indicator(current_value.s)
          \/ Len(strip(field_value.s)) > Len(strip(current_value.s))

\* variant: a string of any other trimmed length replaces
should_replace_other_length(current_value, field_value) ==
    \/ current_value = None /\ field_value # None
    \/ /\ is_str(current_value) /\ is_str(field_value)
       /\ \/ has_error_indicator(current_value.s)
          \/ Len(strip(field_value.s)) # Len(strip(current_value.s))

should_replace(current_value, field_value) ==
    \/ current_value = None /\ field_value # None
    \/ /\ is_str(current_value) /\ is_str(field_value)
       /\ \/ has_error_indicator(current_value.s)
          \/ Len(strip(field_value.s)) > Len(strip(current_value.s))

\* "for field_name, field_value in data.items()"; base_data.get raises on a list
RECURSIVE merge_fields(_, _, _)
merge_fields(base_data, data, i) ==
    IF i > Len(data.ks) THEN base_data
    ELSE IF ~is_dict(base_data) THEN Raised
    ELSE merge_fields(
             IF should_replace(dict_get(base_data, data.ks[i]), data.vs[i])
             THEN dict_set(base_data, data.ks[i], data.vs[i])
             ELSE base_data,
             data, i + 1)

\* "for data, confidence in processed_data[1:]"; data.items() raises on a non-dict
RECURSIVE merge_loop(_, _, _)
merge_loop(base_data, processed, i) ==
    IF base_data = Raised \/ i > Len(processed) THEN base_data
    ELSE IF ~is_dict(processed[i].data) THEN Raised
    ELSE merge_loop(merge_fields(base_data, processed[i].data, 1), processed, i + 1)

intelligent_merge(exs, cfg) ==
    IF exs = <<>> THEN None
    ELSE LET processed == processed_data(sort_by_confidence(exs, 1, <<>>), cfg, 1)
         IN  IF processed = <<>> THEN None
             ELSE IF processed[1].data.t \notin {"dict", "list"}
                  THEN Raised   \* .copy() on a str, a number or None
                  ELSE LET base_data == merge_loop(processed[1].data, processed, 2)
                       IN  IF base_data = Raised THEN Raised
                           ELSE Dict(<<cfg.object_name>>, <<base_data>>)

----------------------------------------------------------------------------
(* Inputs of a run: the caller's FieldConfig and the model's replies *)

ka == <<"a">>

kb == <<"b">>

kc == <<"c">>

object_key == <<"p">>

other_key == <<"w">>

long_text == Str(<<"a", "b", "c", "d">>)

short_text == Str(<<"a", "b">>)

error_text == Str(<<"n", "/", "a">>)

blank_text == Str(<<" ">>)

\* three fields: a required string, an optional string, an optional number
Config3 ==
    FieldConfig(object_key,
                <<FieldSpec(ka, "string", TRUE), FieldSpec(kb, "string", FALSE),
                  FieldSpec(kc, "number", FALSE)>>)

\* an empty "fields" mapping
Config0 == FieldConfig(object_key, <<>>)

Configs == {Config3, Config0}

\* a malformed config: Config3 without the key "function_name"
ConfigNoName == [Config3 EXCEPT !.has_function_name = FALSE]

Wrapped(name, obj) == Dict(<<name>>, <<obj>>)

\* replies of the extraction model to Expert: complete, one short field,
\* wrapped under another key and incomplete, a nested map for a field, a list
\* under object_key (the array shape), flat with an error marker, one that is
\* valid at confidence 0.6 (two issues), one that is invalid at 19/30 (three
\* issues)
ExpertReplies ==
    { Wrapped(object_key, Dict(<<ka, kb, kc>>, <<long_text, long_text, Num(5)>>)),
      Wrapped(object_key, Dict(<<ka, kb, kc>>, <<long_text, short_text, Num(5)>>)),
      Wrapped(other_key, Dict(<<ka>>, <<long_text>>)),
      Wrapped(object_key, Dict(<<ka>>, <<Dict(<<kb>>, <<short_text>>)>>)),
      Wrapped(object_key, Lst(1)),
      Dict(<<ka, kc>>, <<error_text, Num(0)>>),
      Wrapped(object_key, Dict(<<ka, kb, kc>>, <<long_text, blank_text, short_text>>)),
      Wrapped(object_key, Dict(<<ka, kb, kc>>, <<short_text, short_text, short_text>>)) }

\* replies of the extraction model to Advanced: a scalar field, the same
\* field as a nested map, a list under object_key
AdvancedReplies ==
    { Wrapped(object_key, Dict(<<ka>>, <<long_text>>)),
      Wrapped(object_key, Dict(<<ka>>, <<Dict(<<kb>>, <<short_text>>)>>)),
      Wrapped(object_key, Lst(1)) }

\* what one Extraction Call returns: function_call.args, or None when the
\* reply has no function call or the request raised
ExtractionOutcomes(replies) == replies \cup {None, EmptyDict}

\* the same for a given config: building the function declaration is inside
\* the try block, so with a malformed config every call returns None
extraction_outcomes(cfg, replies) ==
    IF declaration_raises(cfg) THEN {None} ELSE ExtractionOutcomes(replies)

----------------------------------------------------------------------------
(* AdvancedCrawlerAgent._verify_extraction *)

Unparsable == [n |-> 0, d |-> 0]

\* the verifier model's reply "verdict|score|reason": parts is the number of
\* '|'-separated parts, 0 when generate_content raised
VerifierReply(parts, verdict, score) ==
    [parts |-> parts, verdict |-> verdict, score |-> score]

VerifierReplies ==
    { VerifierReply(0, "", Unparsable),
      VerifierReply(1, "VALID", Unparsable),
      VerifierReply(3, "VALID", Rat(8, 10)),
      VerifierReply(3, "VALID", Rat(95, 100)),
      VerifierReply(3, "VALID", Rat(15, 10)),
      VerifierReply(2, "INVALID", Unparsable) }

\* float(parts[1].strip()), 0.5 on ValueError
parsed_confidence(score) == IF score = Unparsable THEN Rat(5, 10) ELSE score

verify_extraction(extracted_data, reply) ==
    IF ~truthy(extracted_data) THEN [is_valid |-> FALSE, confidence |-> Zero]
    ELSE IF reply.parts >= 2
         THEN [is_valid |-> reply.verdict = "VALID",
               confidence |-> parsed_confidence(reply.score)]
         ELSE [is_valid |-> FALSE, confidence |-> Zero]

----------------------------------------------------------------------------
(* The retry loops: _extract_with_retry and _extract_with_smart_retry *)

HighConfidenceAdvanced == Rat(8, 10)

HighConfidenceExpert == Rat(9, 10)

MinCandidateConfidence == Rat(3, 10)

ExpertAttempts == 2

\* for attempt in range(self.max_retries)
advanced_attempts(retries) == retries

\* for attempt in range(2)
expert_attempts(retries) == ExpertAttempts

\* variant: the verdict of the verifier is not looked at
advanced_replaces_regardless(valid, conf, best_conf) == RGT(conf, best_conf)

\* if is_valid and confidence > best_confidence
advanced_replaces(valid, conf, best_conf) == valid /\ RGT(conf, best_conf)

\* variant: the retry loop without its "elif confidence > best_confidence"
expert_replaces_valid_only(valid, conf, best_conf) == valid /\ RGT(conf, best_conf)

\* variant: ">=" for ">" in the retry loop's comparisons
expert_replaces_not_worse(valid, conf, best_conf) == RGE(conf, best_conf)

\* variant: an invalid attempt is held only while nothing is held
expert_replaces_invalid_first_only(valid, conf, best_conf) ==
    \/ valid /\ RGT(conf, best_conf)
    \/ ~valid /\ RGT(conf, best_conf) /\ best_conf = Zero

\* if is_valid and confidence > best_confidence ... elif confidence > best_confidence
expert_replaces(valid, conf, best_conf) ==
    \/ valid /\ RGT(conf, best_conf)
    \/ RGT(conf, best_conf)

\* variant: "confidence >= 0.8" for "confidence > 0.8"
advanced_breaks_at_threshold(valid, conf, best_conf) ==
    valid /\ RGT(conf, best_conf) /\ RGE(conf, Rat(8, 10))

\* if confidence > 0.8: break  (inside the valid branch)
advanced_breaks(valid, conf, best_conf) ==
    valid /\ RGT(conf, best_conf) /\ RGT(conf, HighConfidenceAdvanced)

\* if confidence > 0.9: break  (inside the valid branch)
expert_breaks(valid, conf, best_conf) ==
    valid /\ RGT(conf, best_conf) /\ RGT(conf, HighConfidenceExpert)

\* variant: process_html appends the round's result without testing it
advanced_accepts_always(extraction, conf) == TRUE

\* if extraction:
advanced_accepts(extraction, conf) == truthy(extraction)

\* variant: without the test of the confidence
expert_accepts_nonempty(extraction, conf) == truthy(extraction)

\* if extraction and confidence > 0.3:
expert_accepts(extraction, conf) ==
    truthy(extraction) /\ RGT(conf, MinCandidateConfidence)

Pending == [t |-> "pending"]

Candidate(extraction, conf) == [extraction |-> extraction, confidence |-> conf]

RECURSIVE extractions_of(_, _)
extractions_of(cands, i) ==
    IF i > Len(cands) THEN <<>>
    ELSE <<cands[i].extraction>> \o extractions_of(cands, i + 1)

----------------------------------------------------------------------------
(* process_html *)

Init ==
    /\ agent \in {"advanced", "expert"}
    /\ \/ max_retries \in 1..MaxRetries /\ voting_rounds \in 1..MaxRounds
       \/ agent = "advanced" /\ max_retries = 1 /\ voting_rounds = EmphasisRounds
    /\ config \in Configs \cup {ConfigNoName}
    /\ (agent = "advanced" => config \in {Config3, ConfigNoName})
                                        \* Advanced never reads the fields
    /\ pc = "round"
    /\ round_num = 0
    /\ attempt = 0
    /\ best_extraction = None
    /\ best_confidence = Zero
    /\ extracted = None
    /\ is_valid = FALSE
    /\ confidence = Zero
    /\ issues = <<>>
    /\ extractions = <<>>
    /\ result = Pending
    /\ round_config = config
    /\ calls = 0
    /\ round_calls = 0
    /\ round_replied = FALSE
    /\ round_positive = FALSE
    /\ got_reply = FALSE
    /\ reconciler_calls = 0
    /\ valid_fields = 0
    /\ quality_score = 0
    /\ round_valid = FALSE
    /\ best_valid = FALSE

\* entering _extract_with_retry / _extract_with_smart_retry for round_num
EnterRound(cfg) ==
    /\ pc = "round"
    /\ round_num < voting_rounds
    /\ round_config' = cfg
    /\ best_extraction' = None
    /\ best_confidence' = Zero
    /\ attempt' = 0
    /\ extracted' = None
    /\ is_valid' = FALSE
    /\ confidence' = Zero
    /\ issues' = <<>>
    /\ round_calls' = 0
    /\ round_replied' = FALSE
    /\ round_positive' = FALSE
    /\ round_valid' = FALSE
    /\ best_valid' = FALSE
    /\ pc' = "attempt"
    /\ UNCHANGED <<valid_fields, quality_score, agent, max_retries, voting_rounds, config, round_num,
                   extractions, result, calls, got_reply, reconciler_calls>>

\* variant: the sentence appended from the second round on
advanced_round_config_from_second(n, cfg) ==
    IF n >= 1 THEN [cfg EXCEPT !.function_description = @ + 1] ELSE cfg

\* modified_config = config.copy(); modified_config["function_description"] += ...
\* in the rounds after the second, config itself in the first two
advanced_round_config(n, cfg) ==
    IF n >= 2 THEN [cfg EXCEPT !.function_description = @ + 1] ELSE cfg

\* rounds 0 and 1 pass config; later rounds pass a copy whose
\* function_description has the completeness sentence appended
AdvancedStartRound ==
    /\ agent = "advanced"
    /\ EnterRound(advanced_round_config(round_num, config))

ExpertStartRound ==
    /\ agent = "expert"
    /\ EnterRound(config)

\* one iteration of the retry loop: r is the Extraction Call's outcome, v the
\* validation outcome for it, replaces/breaks the loop's two tests
Attempt(r, v, replaces, breaks, limit) ==
    /\ pc = "attempt"
    /\ attempt < limit
    /\ extracted' = r
    /\ calls' = calls + 1
    /\ round_calls' = round_calls + 1
    /\ round_replied' = (round_replied \/ r # None)
    /\ got_reply' = (got_reply \/ r # None)
    /\ attempt' = attempt + 1
    /\ IF truthy(r)
       THEN /\ is_valid' = v.is_valid
            /\ confidence' = v.confidence
            /\ issues' = v.issues
            /\ round_positive' =
                   (round_positive
                    \/ (RGT(v.confidence, Zero) /\ (agent = "advanced" => v.is_valid)))
            /\ round_valid' = (round_valid \/ v.is_valid)
            /\ IF replaces
               THEN /\ best_extraction' = r /\ best_confidence' = v.confidence
                    /\ best_valid' = v.is_valid
               ELSE UNCHANGED <<best_extraction, best_confidence, best_valid>>
            /\ pc' = IF breaks \/ attempt + 1 >= limit THEN "round_end" ELSE "attempt"
       ELSE /\ UNCHANGED <<is_valid, confidence, issues, round_positive,
                           best_extraction, best_confidence, round_valid,
                           best_valid>>
            /\ pc' = IF attempt + 1 >= limit THEN "round_end" ELSE "attempt"
    /\ UNCHANGED <<valid_fields, quality_score, agent, max_retries, voting_rounds,
                   config, round_num, extractions, result, round_config,
                   reconciler_calls>>

AdvancedAttempt ==
    /\ agent = "advanced"
    /\ \E r \in extraction_outcomes(round_config, AdvancedReplies),
          reply \in VerifierReplies :
          LET v == verify_extraction(r, reply)
          IN  Attempt(r, [is_valid |-> v.is_valid, confidence |-> v.confidence,
                          issues |-> <<>>],
                      advanced_replaces(v.is_valid, v.confidence, best_confidence),
                      advanced_breaks(v.is_valid, v.confidence, best_confidence),
                      advanced_attempts(max_retries))

ExpertAttempt ==
    /\ agent = "expert"
    /\ \E r \in extraction_outcomes(round_config, ExpertReplies) :
          LET v == validate_field_quality(r, round_config)
          IN  Attempt(r, v,
                      expert_replaces(v.is_valid, v.confidence, best_confidence),
                      expert_breaks(v.is_valid, v.confidence, best_confidence),
                      expert_attempts(max_retries))

\* variant: the loop over the rounds ends with the first round
after_round_stops_early(next_round, rounds) ==
    IF next_round < 1 THEN "round" ELSE "reconcile"

\* "for round_num in range(self.voting_rounds)": the next round, or the
\* statement after the loop
after_round(next_round, rounds) ==
    IF next_round < rounds THEN "round" ELSE "reconcile"

\* back in process_html: the round's result is appended or dropped; the
\* locals of the retry loop are gone with its frame
EndRound(accepts) ==
    /\ pc = "round_end"
    /\ extractions' = IF accepts
                      THEN Append(extractions,
                                  Candidate(best_extraction, best_confidence))
                      ELSE extractions
    /\ round_num' = round_num + 1
    /\ pc' = after_round(round_num + 1, voting_rounds)
    /\ attempt' = 0
    /\ extracted' = None
    /\ is_valid' = FALSE
    /\ confidence' = Zero
    /\ issues' = <<>>
    /\ UNCHANGED <<round_valid, best_valid, valid_fields, quality_score, agent, max_retries, voting_rounds, config, best_extraction,
                   best_confidence, result, round_config, calls, round_calls,
                   round_replied, round_positive, got_reply, reconciler_calls>>

AdvancedEndRound ==
    /\ agent = "advanced"
    /\ EndRound(advanced_accepts(best_extraction, best_confidence))

ExpertEndRound ==
    /\ agent = "expert"
    /\ EndRound(expert_accepts(best_extraction, best_confidence))

Return(value, reconciled) ==
    /\ pc = "reconcile"
    /\ result' = value
    /\ reconciler_calls' = reconciler_calls + (IF reconciled THEN 1 ELSE 0)
    /\ pc' = "done"
    /\ UNCHANGED <<round_valid, best_valid, valid_fields, quality_score, agent, max_retries, voting_rounds, config, round_num, attempt,
                   best_extraction, best_confidence, extracted, is_valid,
                   confidence, issues, extractions, round_config, calls,
                   round_calls, round_replied, round_positive, got_reply>>

\* if extractions: return self._vote_on_extractions(extractions) else None
AdvancedVote ==
    /\ agent = "advanced"
    /\ IF extractions # <<>>
       THEN LET exs == extractions_of(extractions, 1)
            IN  \E order \in key_orders(all_keys(flattened_extractions(exs, 1))) :
                    Return(vote_on_extractions(exs, order), TRUE)
       ELSE Return(None, FALSE)

\* if extractions_with_confidence: return self._intelligent_merge(...) else None
ExpertMerge ==
    /\ agent = "expert"
    /\ IF extractions # <<>>
       THEN Return(intelligent_merge(extractions, config), TRUE)
       ELSE Return(None, FALSE)

Next ==
    \/ AdvancedStartRound
    \/ AdvancedAttempt
    \/ AdvancedEndRound
    \/ AdvancedVote
    \/ ExpertStartRound
    \/ ExpertAttempt
    \/ ExpertEndRound
    \/ ExpertMerge

Spec == Init /\ [][Next]_vars

----------------------------------------------------------------------------
(* _validate_field_quality as a function of its two arguments: schemas and   *)
(* results drawn over MaxFields field names                                  *)

FieldNames == <<ka, kb, kc, <<"d">>, <<"e">> >>

padded_short_text == Str(<<" ", "a", "b", " ">>)

upper_error_text == Str(<<"N", "/", "A", " ", "x">>)

FieldValues ==
    {None, Str(<<>>), blank_text, padded_short_text, long_text, error_text,
     upper_error_text, Num(0), Num(5)}

\* the "fields" mappings over FieldNames[i..MaxFields], in that order
RECURSIVE field_lists(_)
field_lists(i) ==
    IF i > MaxFields THEN {<<>>}
    ELSE LET rest == field_lists(i + 1)
         IN  rest \cup {<<FieldSpec(FieldNames[i], t, r)>> \o fl :
                            t \in {"string", "number"}, r \in BOOLEAN, fl \in rest}

\* the objects over FieldNames[i..MaxFields]: each key absent or with a value
RECURSIVE objects(_)
objects(i) ==
    IF i > MaxFields THEN {EmptyDict}
    ELSE LET rest == objects(i + 1)
         IN  rest \cup {Dict(<<FieldNames[i]>> \o o.ks, <<v>> \o o.vs) :
                            v \in FieldValues, o \in rest}

ValidatorConfigs == {FieldConfig(object_key, fl) : fl \in field_lists(1)}

\* each object under object_key; the objects over the last two field names
\* under another single key and flat; and a list under object_key
ValidatorResults ==
    {Wrapped(object_key, o) : o \in objects(1)}
        \cup {Wrapped(other_key, o) : o \in objects(MaxFields - 1)}
        \cup objects(MaxFields - 1)
        \cup {Wrapped(object_key, Lst(1))}

\* data with data[name] = v set in the object the reply carries, the reply's
\* wrapping kept: under object_key, under its single other key, or flat
set_field(data_dict, cfg, name, v) ==
    IF has_key(data_dict, cfg.object_name)
    THEN dict_set(data_dict, cfg.object_name,
                  dict_set(dict_get(data_dict, cfg.object_name), name, v))
    ELSE IF Len(data_dict.ks) = 1 /\ is_dict(data_dict.vs[1])
         THEN dict_set(data_dict, data_dict.ks[1], dict_set(data_dict.vs[1], name, v))
         ELSE dict_set(data_dict, name, v)

\* the object set_field writes into
carried_object(data_dict, cfg) ==
    IF has_key(data_dict, cfg.object_name)
    THEN dict_get(data_dict, cfg.object_name)
    ELSE IF Len(data_dict.ks) = 1 /\ is_dict(data_dict.vs[1])
         THEN data_dict.vs[1]
         ELSE data_dict

InitValidator ==
    /\ agent = "validator"
    /\ max_retries = 1
    /\ voting_rounds = 1
    /\ config \in ValidatorConfigs
    /\ extracted \in ValidatorResults
    /\ pc = "validate"
    /\ round_num = 0
    /\ attempt = 0
    /\ best_extraction = None
    /\ best_confidence = Zero
    /\ is_valid = FALSE
    /\ confidence = Zero
    /\ issues = <<>>
    /\ extractions = <<>>
    /\ result = Pending
    /\ round_config = config
    /\ calls = 0
    /\ round_calls = 0
    /\ round_replied = FALSE
    /\ round_positive = FALSE
    /\ got_reply = FALSE
    /\ reconciler_calls = 0
    /\ valid_fields = 0
    /\ quality_score = 0
    /\ round_valid = FALSE
    /\ best_valid = FALSE

\* is_valid, confidence, issues = self._validate_field_quality(data, cfg)
Validated(data, cfg, at) ==
    LET v == validate_field_quality(data, cfg)
        acc == validator_locals(data, cfg)
    IN  /\ extracted' = data
        /\ config' = cfg
        /\ round_config' = cfg
        /\ is_valid' = v.is_valid
        /\ confidence' = v.confidence
        /\ issues' = v.issues
        /\ valid_fields' = acc.valid_fields
        /\ quality_score' = acc.quality_score
        /\ pc' = at
        /\ UNCHANGED <<round_valid, best_valid, agent, max_retries, voting_rounds, round_num, attempt,
                       best_extraction, best_confidence, extractions, result,
                       calls, round_calls, round_replied, round_positive,
                       got_reply, reconciler_calls>>

Validate ==
    /\ agent = "validator"
    /\ pc = "validate"
    /\ Validated(extracted, config, "validated")

\* the same result with one missing required string field now a long string
FillRequiredField ==
    /\ agent = "validator"
    /\ pc = "validated"
    /\ is_dict(carried_object(extracted, config))
    /\ \E i \in 1..Len(config.fields) :
          /\ config.fields[i].required
          /\ config.fields[i].type = "string"
          /\ ~truthy(dict_get(carried_object(extracted, config), config.fields[i].name))
          /\ Validated(set_field(extracted, config, config.fields[i].name, long_text),
                       config, "filled")

\* one more required string field in the schema, a long string for it in the
\* result
AddRequiredField ==
    /\ agent = "validator"
    /\ pc = "validated"
    /\ is_dict(carried_object(extracted, config))
    /\ \E k \in 1..MaxFields :
          /\ \A i \in 1..Len(config.fields) : config.fields[i].name # FieldNames[k]
          /\ ~has_key(carried_object(extracted, config), FieldNames[k])
          /\ Validated(set_field(extracted, config, FieldNames[k], long_text),
                       [config EXCEPT !.fields =
                            Append(@, FieldSpec(FieldNames[k], "string", TRUE))],
                       "added")

NextValidator == Validate \/ FillRequiredField \/ AddRequiredField

SpecValidator == InitValidator /\ [][NextValidator]_vars

----------------------------------------------------------------------------
(* _flatten_dict / _unflatten_dict as functions of their argument: nested    *)
(* maps over keys that include the empty string and a key holding the        *)
(* separator                                                                 *)

\* Python's == on JSON values: dicts compare by their items, not their order
RECURSIVE py_eq(_, _)
py_eq(x, y) ==
    IF is_dict(x) /\ is_dict(y)
    THEN /\ Len(x.ks) = Len(y.ks)
         /\ \A i \in 1..Len(x.ks) :
               /\ has_key(y, x.ks[i])
               /\ py_eq(x.vs[i], dict_get(y, x.ks[i]))
    ELSE x = y

dotted_key == <<"a", ".", "b">>

empty_key == <<>>

TreeKeys == <<empty_key, ka, kb, dotted_key>>

\* the maps over TreeKeys[i..], each key absent or bound to a value of vals
RECURSIVE maps_over(_, _)
maps_over(i, vals) ==
    IF i > Len(TreeKeys) THEN {EmptyDict}
    ELSE LET rest == maps_over(i + 1, vals)
         IN  rest \cup {Dict(<<TreeKeys[i]>> \o m.ks, <<v>> \o m.vs) :
                            v \in vals, m \in rest}

\* maps of the scalar leaf (the empty map among them)
leaf_maps(leaf) == maps_over(1, {leaf})

\* maps whose values are the scalar leaf or maps of the scalar inner_leaf
trees(leaf, inner_leaf) == maps_over(1, {leaf} \cup leaf_maps(inner_leaf))

InitRoundTrip ==
    /\ agent = "roundtrip"
    /\ max_retries = 1
    /\ voting_rounds = 1
    /\ config = Config0
    /\ extracted \in trees(Num(2), Num(1))
    /\ pc = "flatten"
    /\ round_num = 0
    /\ attempt = 0
    /\ best_extraction = None
    /\ best_confidence = Zero
    /\ is_valid = FALSE
    /\ confidence = Zero
    /\ issues = <<>>
    /\ extractions = <<>>
    /\ result = Pending
    /\ round_config = config
    /\ calls = 0
    /\ round_calls = 0
    /\ round_replied = FALSE
    /\ round_positive = FALSE
    /\ got_reply = FALSE
    /\ reconciler_calls = 0
    /\ valid_fields = 0
    /\ quality_score = 0
    /\ round_valid = FALSE
    /\ best_valid = FALSE

\* flat = self._flatten_dict(x)
Flatten ==
    /\ agent = "roundtrip"
    /\ pc = "flatten"
    /\ best_extraction' = flatten_dict(extracted)
    /\ pc' = "flattened"
    /\ UNCHANGED <<round_valid, best_valid, valid_fields, quality_score, agent, max_retries, voting_rounds, config, round_num, attempt,
                   best_confidence, extracted, is_valid, confidence, issues,
                   extractions, result, round_config, calls, round_calls,
                   round_replied, round_positive, got_reply, reconciler_calls>>

\* self._unflatten_dict(flat)
Unflatten ==
    /\ agent = "roundtrip"
    /\ pc = "flattened"
    /\ result' = unflatten_dict(best_extraction)
    /\ pc' = "unflattened"
    /\ UNCHANGED <<round_valid, best_valid, valid_fields, quality_score, agent, max_retries, voting_rounds, config, round_num, attempt,
                   best_extraction, best_confidence, extracted, is_valid,
                   confidence, issues, extractions, round_config, calls,
                   round_calls, round_replied, round_positive, got_reply,
                   reconciler_calls>>

NextRoundTrip == Flatten \/ Unflatten

SpecRoundTrip == InitRoundTrip /\ [][NextRoundTrip]_vars

----------------------------------------------------------------------------
(* _vote_on_extractions as a function of its argument: up to MaxVotes        *)
(* extractions, flat or wrapped under the object name                        *)

MaxVotes == 3

\* the first field: absent, null, one of two numbers, a list, or a nested map
VoteValuesA == {None, Num(1), Num(2), Lst(1), Wrapped(kb, Num(2))}

\* the second field: absent or a string
VoteValuesB == {long_text}

VoteObjects ==
    {EmptyDict}
        \cup {Dict(<<ka>>, <<v>>) : v \in VoteValuesA}
        \cup {Dict(<<kb>>, <<w>>) : w \in VoteValuesB}
        \cup {Dict(<<ka, kb>>, <<v, w>>) : v \in VoteValuesA, w \in VoteValuesB}

\* the lists of n..MaxVotes extractions, all flat or all under object_key
RECURSIVE vote_lists(_)
vote_lists(n) ==
    IF n > MaxVotes THEN {}
    ELSE [1..n -> VoteObjects] \cup vote_lists(n + 1)

vote_inputs(n) ==
    vote_lists(n)
        \cup {[i \in 1..Len(l) |-> Wrapped(object_key, l[i])] : l \in vote_lists(n)}

InitVote ==
    /\ agent = "vote"
    /\ max_retries = 1
    /\ voting_rounds = 1
    /\ config = Config0
    /\ extractions \in vote_inputs(1)
    /\ pc = "vote"
    /\ round_num = 0
    /\ attempt = 0
    /\ best_extraction = None
    /\ best_confidence = Zero
    /\ extracted = None
    /\ is_valid = FALSE
    /\ confidence = Zero
    /\ issues = <<>>
    /\ result = Pending
    /\ round_config = config
    /\ calls = 0
    /\ round_calls = 0
    /\ round_replied = FALSE
    /\ round_positive = FALSE
    /\ got_reply = FALSE
    /\ reconciler_calls = 0
    /\ valid_fields = 0
    /\ quality_score = 0
    /\ round_valid = FALSE
    /\ best_valid = FALSE

\* self._vote_on_extractions(extractions); best_extraction keeps voted_result,
\* the flat mapping the vote built before it was unflattened
Vote ==
    /\ agent = "vote"
    /\ pc = "vote"
    /\ LET flat == flattened_extractions(extractions, 1)
       IN  \E order \in key_orders(all_keys(flat)) :
              /\ best_extraction' = IF flat = <<>> THEN None
                                    ELSE vote_loop(flat, order, 1, EmptyDict)
              /\ result' = vote_on_extractions(extractions, order)
    /\ reconciler_calls' = 1
    /\ pc' = "voted"
    /\ UNCHANGED <<round_valid, best_valid, valid_fields, quality_score, agent, max_retries, voting_rounds, config, round_num, attempt,
                   best_confidence, extracted, is_valid, confidence, issues,
                   extractions, round_config, calls, round_calls, round_replied,
                   round_positive, got_reply>>

NextVote == Vote

SpecVote == InitVote /\ [][NextVote]_vars

----------------------------------------------------------------------------
(* _intelligent_merge step by step: one step of "for field_name, field_value *)
(* in data.items()" at a time.  In this specification extractions is the     *)
(* argument of the merge, best_extraction is base_data, round_num and        *)
(* attempt are the positions of the two loops, and issues collects the       *)
(* updates the merge makes, each with its reason.                            *)

MaxCandidates == 3

null_text == Str(<<"n", "u", "l", "l">>)

tiny_text == Str(<<"a">>)

\* the values of the first field: null, three plain strings, two strings
\* that hold an error marker, a number
MergeValues ==
    {None, tiny_text, short_text, long_text, error_text, null_text, Num(5)}

\* the objects of the candidates: the first field absent or with a value,
\* alone or beside a second field
MergeObjects ==
    {EmptyDict, Dict(<<ka, kb>>, <<short_text, short_text>>),
     Dict(<<kb, ka>>, <<long_text, Num(5)>>)}
        \cup {Dict(<<ka>>, <<v>>) : v \in MergeValues}

MergeConfidences == {Rat(5, 10), Rat(9, 10)}

MergeCandidates ==
    {Candidate(Wrapped(object_key, o), c) : o \in MergeObjects, c \in MergeConfidences}

\* the lists of n..MaxCandidates candidates
RECURSIVE candidate_lists(_)
candidate_lists(n) ==
    IF n > MaxCandidates THEN {}
    ELSE [1..n -> MergeCandidates] \cup candidate_lists(n + 1)

InitMerge ==
    /\ agent = "merge"
    /\ max_retries = 1
    /\ voting_rounds = 1
    /\ config = Config3
    /\ extractions \in candidate_lists(1)
    /\ pc = "merge"
    /\ round_num = 0
    /\ attempt = 0
    /\ best_extraction = None
    /\ best_confidence = Zero
    /\ extracted = None
    /\ is_valid = FALSE
    /\ confidence = Zero
    /\ issues = <<>>
    /\ result = Pending
    /\ round_config = config
    /\ calls = 0
    /\ round_calls = 0
    /\ round_replied = FALSE
    /\ round_positive = FALSE
    /\ got_reply = FALSE
    /\ reconciler_calls = 0
    /\ valid_fields = 0
    /\ quality_score = 0
    /\ round_valid = FALSE
    /\ best_valid = FALSE

\* processed_data, as built from the (sorted) argument
merge_processed == processed_data(extractions, config, 1)

\* the reason the merge gives for an update
replace_reason(current_value, field_value) ==
    IF current_value = None /\ field_value # None THEN "filling missing field"
    ELSE IF has_error_indicator(current_value.s) THEN "replacing error text"
    ELSE "using more complete text"

MergeUnchanged ==
    UNCHANGED <<round_valid, best_valid, valid_fields, quality_score, agent, max_retries, voting_rounds, config, best_confidence,
                extracted, is_valid, confidence, round_config, calls,
                round_calls, round_replied, round_positive, got_reply>>

\* the sort, processed_data and the copy of the base; None when nothing is
\* left to merge
MergeStart ==
    /\ agent = "merge"
    /\ pc = "merge"
    /\ extractions' = sort_by_confidence(extractions, 1, <<>>)
    /\ LET processed == processed_data(extractions', config, 1)
       IN  IF processed = <<>>
           THEN /\ result' = None
                /\ pc' = "merged"
                /\ UNCHANGED <<best_extraction, round_num, attempt>>
           ELSE /\ best_extraction' = processed[1].data
                /\ round_num' = 2
                /\ attempt' = 1
                /\ pc' = "merging"
                /\ UNCHANGED result
    /\ reconciler_calls' = 1
    /\ UNCHANGED issues
    /\ MergeUnchanged

\* one iteration of "for field_name, field_value in data.items()"
MergeField ==
    /\ agent = "merge"
    /\ pc = "merging"
    /\ round_num <= Len(merge_processed)
    /\ attempt <= Len(merge_processed[round_num].data.ks)
    /\ LET data          == merge_processed[round_num].data
           field_name    == data.ks[attempt]
           field_value   == data.vs[attempt]
           current_value == dict_get(best_extraction, field_name)
       IN  IF should_replace(current_value, field_value)
           THEN /\ best_extraction' = dict_set(best_extraction, field_name, field_value)
                /\ issues' = Append(issues,
                                    [field |-> field_name,
                                     reason |-> replace_reason(current_value, field_value)])
           ELSE UNCHANGED <<best_extraction, issues>>
    /\ attempt' = attempt + 1
    /\ UNCHANGED <<extractions, round_num, pc, result, reconciler_calls>>
    /\ MergeUnchanged

\* "for data, confidence in processed_data[1:]": on to the next candidate
MergeNextCandidate ==
    /\ agent = "merge"
    /\ pc = "merging"
    /\ round_num <= Len(merge_processed)
    /\ attempt > Len(merge_processed[round_num].data.ks)
    /\ round_num' = round_num + 1
    /\ attempt' = 1
    /\ UNCHANGED <<extractions, best_extraction, issues, pc, result, reconciler_calls>>
    /\ MergeUnchanged

\* final_result = {object_name: base_data}
MergeReturn ==
    /\ agent = "merge"
    /\ pc = "merging"
    /\ round_num > Len(merge_processed)
    /\ result' = Dict(<<config.object_name>>, <<best_extraction>>)
    /\ pc' = "merged"
    /\ UNCHANGED <<extractions, best_extraction, issues, round_num, attempt,
                   reconciler_calls>>
    /\ MergeUnchanged

NextMerge == MergeStart \/ MergeField \/ MergeNextCandidate \/ MergeReturn

SpecMerge == InitMerge /\ [][NextMerge]_vars

\* the steps add up to the function the Expert pipeline calls
MergeStepsAreTheFunction ==
    (agent = "merge" /\ pc = "merged") => result = intelligent_merge(extractions, config)

----------------------------------------------------------------------------
(* Properties *)

InRetryLoop == pc \in {"attempt", "round_end"}

\* the step is one iteration of a retry loop that got a non-empty reply
AttemptWithReply == calls' = calls + 1 /\ truthy(extracted')

HighConfidence == IF agent = "advanced" THEN Rat(8, 10) ELSE Rat(9, 10)

AttemptLimit == IF agent = "advanced" THEN max_retries ELSE ExpertAttempts

\* C1: process_html ends by returning a mapping or null; it never raises
\* because of the shape or content of the extracted data.
C1_NeverRaises == result # Raised

\* C2: if every Extraction Call of every round returns no structured output,
\* process_html returns null without raising and the Reconciler is never
\* given a candidate.
C2_AllFailuresReturnNull ==
    (pc = "done" /\ ~got_reply) =>
        (result = None /\ reconciler_calls = 0 /\ extractions = <<>>)

C2_Witness ==
    pc = "done" /\ ~got_reply /\ voting_rounds = 2 /\ calls >= 4 /\ result = None

\* C3 as stated: in both agents an attempt whose confidence exceeds the best
\* confidence of the round replaces the held best whether or not it was
\* judged valid, and any other attempt leaves the held best unchanged.
C3_ReplacesRegardlessOfValidity ==
    [][AttemptWithReply =>
          IF RGT(confidence', best_confidence)
          THEN best_extraction' = extracted' /\ best_confidence' = confidence'
          ELSE UNCHANGED <<best_extraction, best_confidence>>]_vars

\* C3 amended: in Expert an attempt whose confidence exceeds the best
\* confidence replaces the held best whether or not it was judged valid; in
\* Advanced it replaces the held best only if it was also judged valid; any
\* other attempt leaves the held best and the best confidence unchanged.
C3_ReplacementRule ==
    [][AttemptWithReply =>
          IF RGT(confidence', best_confidence) /\ (agent = "expert" \/ is_valid')
          THEN best_extraction' = extracted' /\ best_confidence' = confidence'
          ELSE UNCHANGED <<best_extraction, best_confidence>>]_vars

C3_Witness ==
    /\ agent = "expert" /\ InRetryLoop /\ truthy(extracted) /\ ~is_valid
    /\ best_extraction = extracted /\ best_confidence = confidence
    /\ RGT(confidence, Zero)

\* C4 as stated: a round returns a non-null best result if and only if at
\* least one of its attempts returned a non-null result (confidence 0
\* included).
C4_BestIffSomeReply ==
    pc = "round_end" => (best_extraction # None <=> round_replied)

\* C4 amended: a round returns a non-null best result if and only if at least
\* one of its attempts returned a non-empty result whose confidence was
\* strictly greater than 0 and, in Advanced, was judged valid; it returns null
\* otherwise, in particular when every attempt returned null.
C4_BestIffPositiveReply ==
    pc = "round_end" =>
        /\ best_extraction # None <=> round_positive
        /\ ~round_replied => best_extraction = None

C4_Witness ==
    /\ pc = "round_end" /\ round_calls >= 2 /\ round_positive
    /\ best_extraction # None /\ ~truthy(extracted)

\* the held best is the last reply, judged valid, above the threshold
EarlyExitReached ==
    /\ InRetryLoop /\ attempt > 0 /\ truthy(extracted) /\ is_valid
    /\ RGT(confidence, HighConfidence)
    /\ best_extraction = extracted /\ best_confidence = confidence

\* C5: once an attempt judged valid with a confidence above the threshold
\* (0.8 Advanced, 0.9 Expert) is the held best, no further Extraction Call is
\* issued in that round; a confidence equal to the threshold does not end
\* the round.
C5_EarlyExit ==
    [][/\ EarlyExitReached => calls' = calls
       /\ (AttemptWithReply /\ is_valid' /\ REQ(confidence', HighConfidence)
              /\ attempt' < AttemptLimit) => pc' = "attempt"]_vars

\* the round stopped after its second attempt; a third was allowed
C5_Witness ==
    /\ EarlyExitReached /\ pc = "round_end" /\ agent = "advanced"
    /\ round_calls = 2 /\ max_retries >= 3

\* C6: the Extraction Calls of one round never exceed max_retries and those
\* of one run never exceed voting_rounds * max_retries, in both agents.
C6_CallsBounded ==
    round_calls <= max_retries /\ calls <= voting_rounds * max_retries

\* C7: every confidence of an attempt, of a round's held best and of a
\* Candidate lies in [0,1], in both agents.
C7_ConfidenceInUnitInterval ==
    /\ InUnit(confidence)
    /\ InUnit(best_confidence)
    /\ \A i \in 1..Len(extractions) : InUnit(extractions[i].confidence)

\* the score one field contributes, in hundredths
per_field_score(fs, data) ==
    validate_field([issues |-> <<>>, valid_fields |-> 0, quality_score |-> 0],
                   fs, data).quality_score

RECURSIVE per_field_score_sum(_, _, _)
per_field_score_sum(fields, data, i) ==
    IF i > Len(fields) THEN 0
    ELSE per_field_score(fields[i], data) + per_field_score_sum(fields, data, i + 1)

ValidatorHasRun == agent = "validator" /\ pc \in {"validated", "filled", "added"}

\* C8: for a non-empty result and a schema with at least one field the
\* confidence is the sum of the per-field scores divided by the number of
\* fields of the schema, and is_valid holds exactly when the confidence is
\* >= 0.6 and at most 2 issues were recorded.
C8_ConfidenceIsMeanOverAllFields ==
    (ValidatorHasRun /\ truthy(extracted) /\ Len(config.fields) >= 1) =>
        /\ confidence.d > 0
        /\ REQ(confidence,
               Rat(per_field_score_sum(config.fields,
                                       validated_object(extracted, config), 1),
                   100 * Len(config.fields)))
        /\ is_valid <=> (RGE(confidence, Rat(6, 10)) /\ Len(issues) <= 2)

\* two fields in the schema, one of them scored: the mean is over both
C8_Witness ==
    /\ ValidatorHasRun /\ truthy(extracted) /\ Len(config.fields) = 2
    /\ REQ(confidence, Rat(1, 2)) /\ Len(issues) = 0

C10_EmptySchemaNeverHeld ==
    (agent = "expert" /\ Len(config.fields) = 0) =>
        /\ ~is_valid
        /\ REQ(confidence, Zero)
        /\ best_extraction = None
        /\ pc = "round_end" => round_calls = 2

C10_Witness ==
    /\ agent = "expert" /\ Len(config.fields) = 0 /\ pc = "round_end"
    /\ truthy(extracted) /\ round_calls = 2

\* every key of x, at every level, is non-empty and holds no separator
RECURSIVE plain_keys(_)
plain_keys(x) ==
    is_dict(x) =>
        \A i \in 1..Len(x.ks) :
            /\ Len(x.ks[i]) > 0
            /\ \A j \in 1..Len(x.ks[i]) : x.ks[i][j] # sep
            /\ plain_keys(x.vs[i])

\* no map below the top level of x is empty
RECURSIVE no_empty_submap(_)
no_empty_submap(x) ==
    is_dict(x) =>
        \A i \in 1..Len(x.vs) :
            /\ is_dict(x.vs[i]) => Len(x.vs[i].ks) > 0
            /\ no_empty_submap(x.vs[i])

\* the dotted paths of the scalar leaves of x, in flattening order
leaf_paths(x) ==
    LET items == flatten_items(x, <<>>, 1)
    IN  [i \in 1..Len(items) |-> items[i][1]]

unique_leaf_paths(x) ==
    \A i, j \in 1..Len(leaf_paths(x)) :
        leaf_paths(x)[i] = leaf_paths(x)[j] => i = j

RoundTripDone == agent = "roundtrip" /\ pc = "unflattened"

\* C11 as stated: for every nested structure of maps and scalar leaves with
\* unique leaf paths, empty sub-maps and keys holding the separator
\* included, _unflatten_dict(_flatten_dict(x)) equals x.
C11_RoundTripAllTrees ==
    (RoundTripDone /\ unique_leaf_paths(extracted)) => py_eq(result, extracted)

\* C11: for every nested structure of maps and scalar leaves in which every
\* key is non-empty and holds no separator and no sub-map is empty,
\* _unflatten_dict(_flatten_dict(x)) equals x.
C11_RoundTripPlainTrees ==
    (RoundTripDone /\ plain_keys(extracted) /\ no_empty_submap(extracted)) =>
        py_eq(result, extracted)

\* a two-level structure with sibling keys at both levels has gone round
C11_Witness ==
    /\ RoundTripDone /\ plain_keys(extracted) /\ no_empty_submap(extracted)
    /\ Len(extracted.ks) = 2
    /\ is_dict(extracted.vs[1]) /\ Len(extracted.vs[1].ks) = 2
    /\ Len(best_extraction.ks) = 3

VoteDone == agent = "vote" /\ pc = "voted" /\ best_extraction # None

Absent == [t |-> "absent"]

\* the value a nested mapping holds under a path, Absent when it holds none
RECURSIVE path_get(_, _)
path_get(d, parts) ==
    IF ~is_dict(d) \/ ~has_key(d, parts[1]) THEN Absent
    ELSE IF Len(parts) = 1 THEN dict_get(d, parts[1])
    ELSE path_get(dict_get(d, parts[1]), Tail(parts))

\* k is a leaf path in one input and a map holding the path k2 in another
nested_under(k, k2) ==
    Len(k2) > Len(k) /\ SubSeq(k2, 1, Len(k) + 1) = k \o <<sep>>

\* some path is a leaf in one input and a nested map in another
path_conflict ==
    \E k, k2 \in all_keys(flattened_extractions(extractions, 1)) : nested_under(k, k2)

\* the non-null values the truthy extractions hold under the flat path key
votes_for(key) == values_of(flattened_extractions(extractions, 1), key, 1)

all_scalars(values) ==
    \A i \in 1..Len(values) : values[i].t \in {"str", "num"}

first_seen(values, v) == CHOOSE i \in 1..Len(values) :
    values[i] = v /\ \A h \in 1..(i - 1) : values[h] # v

occurrences(values, v) == Cardinality({i \in 1..Len(values) : values[i] = v})

\* C12: for each field path whose non-null values are all scalars, the
\* voted value has maximal occurrence count among them, and among the values
\* of maximal count it is the one seen first in input order.
C12_VoteMostFrequentFirstSeen ==
    VoteDone =>
        \A key \in all_keys(flattened_extractions(extractions, 1)) :
            LET values == votes_for(key)
                voted  == dict_get(best_extraction, key)
            IN  (values # <<>> /\ all_scalars(values)) =>
                    /\ has_key(best_extraction, key)
                    /\ \E i \in 1..Len(values) : values[i] = voted
                    /\ \A j \in 1..Len(values) :
                          \/ occurrences(values, values[j]) < occurrences(values, voted)
                          \/ /\ occurrences(values, values[j]) = occurrences(values, voted)
                             /\ first_seen(values, voted) <= first_seen(values, values[j])
                    /\ ~path_conflict =>
                          /\ result # Raised
                          /\ path_get(result, split(key)) = voted

\* the values 1, 2, 1 for one field: the vote is 1
C12_Witness ==
    /\ VoteDone /\ Len(extractions) = 3
    /\ \A i \in 1..3 : ~has_key(extractions[i], object_key)
    /\ dict_get(extractions[1], ka) = Num(1)
    /\ dict_get(extractions[2], ka) = Num(2)
    /\ dict_get(extractions[3], ka) = Num(1)
    /\ dict_get(result, ka) = Num(1)

\* a step of the merge that looked at one field of one lower candidate
MergeFieldStep == agent = "merge" /\ pc = "merging" /\ attempt' = attempt + 1

step_field == merge_processed[round_num].data.ks[attempt]

\* the candidate's value and the base value the step compares
step_value == merge_processed[round_num].data.vs[attempt]

step_current == dict_get(best_extraction, step_field)

\* the step stored the candidate's value in the base and reported an update
StepReplaced ==
    /\ Len(issues') = Len(issues) + 1
    /\ best_extraction' = dict_set(best_extraction, step_field, step_value)

StepKept == UNCHANGED <<best_extraction, issues>>

MergeFields == {ka, kb}

\* candidate k has been merged completely (the base counts as merged)
merged_through(k) == k < round_num \/ pc = "merged"

\* C13: a field of the merged result is null or absent only if it is null or
\* absent in every candidate; a field missing in the base is filled from the
\* first lower candidate in merge order that has it, and once filled it
\* never becomes null again.
C13_MissingFieldsAreFilled ==
    [][(agent' = "merge" /\ pc' \in {"merging", "merged"} /\ best_extraction' # None) =>
          /\ \A f \in MergeFields :
                dict_get(best_extraction', f) = None =>
                    \A k \in 1..Len(merge_processed') :
                        merged_through(k)' => dict_get(merge_processed'[k].data, f) = None
          /\ (MergeFieldStep /\ step_current = None /\ step_value # None) =>
                dict_get(best_extraction', step_field) = step_value
          /\ \A f \in MergeFields :
                (pc = "merging" /\ dict_get(best_extraction, f) # None) =>
                    dict_get(best_extraction', f) # None
          /\ (pc' = "merged" /\ pc = "merging") =>
                result' = Dict(<<config.object_name>>, <<best_extraction>>)]_vars

\* the base and the second candidate lack the field, the third, of lower
\* confidence, has it: the result takes it from the third
C13_Witness ==
    /\ agent = "merge" /\ pc = "merged" /\ Len(merge_processed) = 3
    /\ dict_get(merge_processed[1].data, ka) = None
    /\ dict_get(merge_processed[2].data, ka) = None
    /\ merge_processed[3].data = Dict(<<ka>>, <<short_text>>)
    /\ RGT(merge_processed[1].confidence, merge_processed[3].confidence)
    /\ dict_get(dict_get(result, object_key), ka) = short_text

base_missing == step_current = None /\ step_value # None

both_strings == is_str(step_current) /\ is_str(step_value)

base_has_error == is_str(step_current) /\ has_error_indicator(step_current.s)

value_has_error == is_str(step_value) /\ has_error_indicator(step_value.s)

value_is_longer ==
    both_strings /\ Len(strip(step_value.s)) > Len(strip(step_current.s))

Returned ==
    pc \in {"done", "voted", "merged"} /\ result \notin {None, Pending, Raised}

\* C16: every non-null value returned is a mapping that holds the key
\* object_name of the FieldConfig, with the reconciled field mapping under
\* it, whatever wrapper the model used in its raw results.
C16_ResultKeyedByObjectName ==
    Returned =>
        /\ is_dict(result)
        /\ has_key(result, config.object_name)
        /\ is_dict(dict_get(result, config.object_name))

\* C17: a malformed FieldConfig is fatal: it is surfaced to the caller of
\* process_html at the first use of the config, no Extraction Call is
\* retried because of it, and the run does not end as an ordinary null.
C17_MalformedConfigIsFatal ==
    declaration_raises(config) =>
        /\ calls <= 1
        /\ pc = "done" => result = Raised

\* the retry loop took the attempt it just made as the round's held best
HeldBestReplaced ==
    /\ pc = "attempt" /\ best_extraction' # None
    /\ <<best_extraction', best_confidence'>> # <<best_extraction, best_confidence>>

\* process_html handled the result of the round that just ended
RoundHandled == pc = "round_end" /\ pc' # "round_end"

RoundContributed ==
    extractions' = Append(extractions, Candidate(best_extraction, best_confidence))

\* the validation outcome of a candidate of the Expert pipeline
candidate_outcome(c) == validate_field_quality(c.extraction, config)

issues_about(name) == {k \in 1..Len(issues) : issues[k][2] = name}

\* C20: a number field whose value is present and numeric (0 included,
\* required or optional) scores 1.0 and records no issue; a present
\* non-numeric value scores 0.5, before any error-marker penalty, and
\* records one issue for the type.
C20_NumberFieldScore ==
    (ValidatorHasRun /\ truthy(extracted)
        /\ is_dict(validated_object(extracted, config))) =>
        \A i \in 1..Len(config.fields) :
            LET fs  == config.fields[i]
                obj == validated_object(extracted, config)
                v   == dict_get(obj, fs.name)
            IN  (fs.type = "number" /\ v # None) =>
                    IF is_number(v)
                    THEN /\ per_field_score(fs, obj) = 100
                         /\ issues_about(fs.name) = {}
                    ELSE /\ per_field_score(fs, obj) =
                                IF is_str(v) /\ has_error_indicator(v.s)
                                THEN error_penalty(50) ELSE 50
                         /\ \E k \in issues_about(fs.name) : issues[k][1] = "not_number"

\* the value the validator reads for a field: None when the key is absent or
\* the scored object is not a mapping
read_value(fs) ==
    LET obj == validated_object(extracted, config)
    IN  IF is_dict(obj) THEN dict_get(obj, fs.name) ELSE None

\* the required fields of the schema whose value is missing, null or ""
required_unfilled ==
    {i \in 1..Len(config.fields) :
        /\ config.fields[i].required
        /\ read_value(config.fields[i]) \in {None, Str(<<>>)}}

RECURSIVE score_sum_outside(_, _)
score_sum_outside(skip, i) ==
    IF i > Len(config.fields) THEN 0
    ELSE (IF i \in skip THEN 0
          ELSE per_field_score(config.fields[i],
                               validated_object(extracted, config)))
         + score_sum_outside(skip, i + 1)

\* C21: a required field whose value is missing, null or the empty string
\* records exactly one issue (that it is missing), adds nothing to the score
\* sum and is not counted as present: the score sum is the sum over the
\* other fields, and the count of present fields is a count of other fields.
C21_RequiredUnfilledField ==
    (ValidatorHasRun /\ truthy(extracted)) =>
        /\ \A i \in required_unfilled :
              /\ Cardinality(issues_about(config.fields[i].name)) = 1
              /\ \A k \in issues_about(config.fields[i].name) :
                    issues[k][1] = "missing"
        /\ quality_score = score_sum_outside(required_unfilled, 1)
        /\ valid_fields =
              Cardinality({i \in 1..Len(config.fields) \ required_unfilled :
                              /\ read_value(config.fields[i]) # None
                              /\ config.fields[i].required =>
                                    truthy(read_value(config.fields[i]))})

\* a required string field holding "" next to a field holding a long string
C21_Witness ==
    /\ ValidatorHasRun /\ truthy(extracted) /\ Len(config.fields) = 2
    /\ \E i \in required_unfilled :
          /\ config.fields[i].type = "string"
          /\ read_value(config.fields[i]) = Str(<<>>)
    /\ quality_score = 100 /\ valid_fields = 1 /\ Len(issues) = 1

\* the string fields of the schema whose value is a string that is scored
\* (a required field holding "" is reported missing instead)
scored_strings ==
    {i \in 1..Len(config.fields) :
        /\ config.fields[i].type = "string"
        /\ is_str(read_value(config.fields[i]))
        /\ ~(config.fields[i].required /\ read_value(config.fields[i]) = Str(<<>>))}

\* the kinds of the issues recorded for the field name, in order
issue_kinds(name) ==
    LET about == SelectSeq(issues, LAMBDA x : x[2] = name)
    IN  [k \in 1..Len(about) |-> about[k][1]]

\* score in hundredths and issues the three tiers and the marker rule give
tier_score(v) ==
    LET n    == Len(strip(v.s))
        tier == IF n > 3 THEN 100 ELSE IF n >= 1 THEN 70 ELSE 30
    IN  IF has_error_indicator(v.s) THEN (tier * 3) \div 10 ELSE tier

tier_issues(v) ==
    LET n == Len(strip(v.s))
    IN  (IF n > 3 THEN <<>> ELSE IF n >= 1 THEN <<"too_short">> ELSE <<"empty">>)
            \o (IF has_error_indicator(v.s) THEN <<"error_text">> ELSE <<>>)

RECURSIVE tier_score_sum(_)
tier_score_sum(i) ==
    IF i > Len(config.fields) THEN 0
    ELSE (IF i \in scored_strings
          THEN tier_score(read_value(config.fields[i]))
          ELSE per_field_score(config.fields[i],
                               validated_object(extracted, config)))
         + tier_score_sum(i + 1)

\* C22: a present string value of a string field scores 1.0 for a trimmed
\* length > 3, 0.7 for 1 to 3 and 0.3 for 0, with one issue for each of the
\* two lower tiers; a value containing an error marker (in any case) has
\* its score multiplied by 0.3 and one further issue recorded.
C22_StringFieldScore ==
    (ValidatorHasRun /\ truthy(extracted)) =>
        /\ \A i \in scored_strings :
              issue_kinds(config.fields[i].name) =
                  tier_issues(read_value(config.fields[i]))
        /\ quality_score = tier_score_sum(1)

\* one required field holding "n/a": 0.7 * 0.3, two issues; and one holding
\* the long upper-case marker: 1.0 * 0.3, one issue
C22_Witness ==
    /\ ValidatorHasRun /\ truthy(extracted) /\ Len(config.fields) = 2
    /\ scored_strings = {1, 2}
    /\ read_value(config.fields[1]) = error_text
    /\ read_value(config.fields[2]) = upper_error_text
    /\ quality_score = 51 /\ Len(issues) = 3 /\ ~is_valid

\* issues, valid_fields and quality_score of scoring the object obj
scored_as(obj) ==
    validate_loop(1, config.fields, obj,
                  [issues |-> <<>>, valid_fields |-> 0, quality_score |-> 0])

top_level_keys(d) == {d.ks[i] : i \in 1..Len(d.ks)}

recognized_names == {config.fields[i].name : i \in 1..Len(config.fields)}

\* C23: a raw result whose top-level keys are recognized field names (a
\* single such key included) is scored as it is, its only value is never
\* taken for the object; and the merge takes the same object from the raw
\* result as the validator.
C23_UnwrappingRule ==
    (ValidatorHasRun /\ truthy(extracted)) =>
        /\ (top_level_keys(extracted) \subseteq recognized_names) =>
              [issues |-> issues, valid_fields |-> valid_fields,
               quality_score |-> quality_score] = scored_as(extracted)
        /\ merged_object(extracted, config) = validated_object(extracted, config)

\* C24: the vote returns a mapping that holds, under every field path with
\* a non-null value in some input, the value selected for it (the first
\* non-null value in input order when some value is not a scalar), and holds
\* no path that is null in every input; also when a path is a scalar leaf in
\* one input and a nested map in another.
C24_VoteKeepsEveryPath ==
    VoteDone =>
        /\ result # Raised
        /\ \A key \in all_keys(flattened_extractions(extractions, 1)) :
              LET values == votes_for(key)
                  held   == path_get(result, split(key))
              IN  IF values # <<>>
                  THEN /\ held = dict_get(best_extraction, key)
                       /\ ~all_scalars(values) => held = values[1]
                  ELSE (\A k2 \in all_keys(flattened_extractions(extractions, 1)) :
                            ~nested_under(key, k2)) => held = Absent

MergeStartStep == agent = "merge" /\ pc = "merge" /\ pc' # "merge"

\* extractions' is extractions in descending confidence, candidates of equal
\* confidence in their order in extractions (the round order)
SortedByConfidenceThenRound ==
    \E pi \in key_orders(1..Len(extractions)) :
        /\ Len(extractions') = Len(extractions)
        /\ \A i \in 1..Len(extractions) : extractions'[i] = extractions[pi[i]]
        /\ \A i, j \in 1..Len(extractions) :
              i < j => \/ RGT(extractions[pi[i]].confidence,
                              extractions[pi[j]].confidence)
                       \/ /\ REQ(extractions[pi[i]].confidence,
                                 extractions[pi[j]].confidence)
                          /\ pi[i] < pi[j]

\* C25: the merge takes the candidates in descending confidence, equal
\* confidences in ascending round index; the first is the base, and every
\* later candidate is applied in that order, one field at a time, to the
\* base as the earlier candidates left it.
C25_MergeOrder ==
    [][/\ MergeStartStep =>
             /\ SortedByConfidenceThenRound
             /\ pc' = "merging" =>
                   /\ best_extraction' =
                          dict_get(extractions'[1].extraction, config.object_name)
                   /\ round_num' = 2 /\ attempt' = 1
       /\ MergeFieldStep =>
             /\ UNCHANGED <<extractions, round_num>>
             /\ round_num \in 2..Len(extractions)
             /\ step_field =
                    dict_get(extractions[round_num].extraction,
                             config.object_name).ks[attempt]
             /\ best_extraction' =
                    IF should_replace(dict_get(best_extraction, step_field),
                                      step_value)
                    THEN dict_set(best_extraction, step_field, step_value)
                    ELSE best_extraction
       /\ (agent = "merge" /\ pc = "merging" /\ round_num' # round_num) =>
             /\ round_num' = round_num + 1 /\ attempt' = 1
             /\ attempt = Len(merge_processed[round_num].data.ks) + 1
             /\ UNCHANGED <<extractions, best_extraction>>
       /\ (agent = "merge" /\ pc = "merging" /\ pc' = "merged") =>
             /\ round_num = Len(extractions) + 1
             /\ result' = Dict(<<config.object_name>>, <<best_extraction>>)]_vars

\* "ab" at 0.9, then "abcd" and "n/a" both at 0.5: "abcd" replaces "ab", and
\* "n/a", longer than "ab" but not than "abcd", is not taken
C25_Witness ==
    /\ agent = "merge" /\ pc = "merged" /\ Len(extractions) = 3
    /\ extractions[1] = Candidate(Wrapped(object_key, Dict(<<ka>>, <<short_text>>)),
                                  Rat(9, 10))
    /\ extractions[2] = Candidate(Wrapped(object_key, Dict(<<ka>>, <<long_text>>)),
                                  Rat(5, 10))
    /\ extractions[3] = Candidate(Wrapped(object_key, Dict(<<ka>>, <<error_text>>)),
                                  Rat(5, 10))
    /\ Len(issues) = 1
    /\ result = Wrapped(object_key, Dict(<<ka>>, <<long_text>>))

ReconcilerInvoked == reconciler_calls' # reconciler_calls

RoundEntered == agent \in {"advanced", "expert"} /\ pc = "round" /\ pc' = "attempt"

\* C27: every round starts with no held best result and best confidence 0,
\* and no round changes the caller's FieldConfig; the completeness sentence
\* of the Advanced rounds of index >= 2 is in the config of such a round
\* exactly once, whatever the number of earlier such rounds, in no other
\* round's config, and never in the caller's config.
C27_RoundsShareNoState ==
    [][/\ config' = config
       /\ RoundEntered =>
             /\ best_extraction' = None /\ best_confidence' = Zero
             /\ IF agent = "advanced" /\ round_num >= 2
                THEN /\ round_config'.function_description =
                            config.function_description + 1
                     /\ [round_config' EXCEPT !.function_description =
                            config.function_description] = config
                ELSE round_config' = config
       /\ ~RoundEntered => round_config' = round_config]_vars

\* the third round of an Advanced run: the sentence is in the round's config
\* and not in the caller's
C27_Witness ==
    /\ agent = "advanced" /\ pc = "attempt" /\ round_num = 2
    /\ Len(extractions) = 2
    /\ best_extraction = None /\ best_confidence = Zero
    /\ config.function_description = 0
    /\ round_config.function_description = 1

\* the step compares a present base value without error marker with a
\* candidate value that holds one
CleanBaseMeetsErrorValue ==
    MergeFieldStep /\ step_current # None /\ ~base_has_error /\ value_has_error

\* C28 as stated: a present base value without error marker is never
\* replaced by a candidate value that holds an error marker.
C28_NeverReplacedByErrorValue ==
    [][CleanBaseMeetsErrorValue => StepKept]_vars

\* C28: a present base value without error marker is replaced by a
\* candidate value that holds an error marker exactly when both are strings
\* and the candidate's trimmed length is strictly greater; otherwise it is
\* kept.
C28_ErrorValueReplacesOnlyIfLonger ==
    [][CleanBaseMeetsErrorValue =>
          IF value_is_longer THEN StepReplaced ELSE StepKept]_vars

\* "ab" in the base gave way to the longer "n/a" of a lower candidate
C28_Witness ==
    /\ agent = "merge" /\ pc = "merged" /\ Len(merge_processed) = 2
    /\ merge_processed[1].data = Dict(<<ka>>, <<short_text>>)
    /\ merge_processed[2].data = Dict(<<ka>>, <<error_text>>)
    /\ issues = <<[field |-> ka, reason |-> "using more complete text"]>>
    /\ dict_get(dict_get(result, object_key), ka) = error_text

MergeDone == agent = "merge" /\ pc = "merged" /\ is_dict(result)

\* the value of field f in the highest-confidence candidate, and in the result
top_value(f) == dict_get(merge_processed[1].data, f)

merged_value(f) == dict_get(dict_get(result, config.object_name), f)

clean_string(v) == is_str(v) /\ ~has_error_indicator(v.s)

\* C29 as stated: if the highest-confidence candidate holds a string without
\* error marker for a field, the merged value of the field is a string of
\* at least that trimmed length, for any number of candidates.
C29_MergedStringNotShorter ==
    MergeDone =>
        \A f \in MergeFields :
            clean_string(top_value(f)) =>
                /\ is_str(merged_value(f))
                /\ Len(strip(merged_value(f).s)) >= Len(strip(top_value(f).s))

\* C29: if the highest-confidence candidate holds a string without error
\* marker for a field, the merged value of the field is a string; it has at
\* least that trimmed length when no candidate's value for the field holds
\* an error marker.
C29_MergedStringNotShorterWithoutErrorValues ==
    MergeDone =>
        \A f \in MergeFields :
            clean_string(top_value(f)) =>
                /\ is_str(merged_value(f))
                /\ (\A k \in 2..Len(merge_processed) :
                        LET v == dict_get(merge_processed[k].data, f)
                        IN  ~(is_str(v) /\ has_error_indicator(v.s)))
                       => Len(strip(merged_value(f).s)) >= Len(strip(top_value(f).s))

\* "ab", then "a", then "abcd": the shorter string is passed over and the
\* longer one taken
C29_Witness ==
    /\ MergeDone /\ Len(merge_processed) = 3
    /\ merge_processed[1].data = Dict(<<ka>>, <<short_text>>)
    /\ merge_processed[2].data = Dict(<<ka>>, <<tiny_text>>)
    /\ merge_processed[3].data = Dict(<<ka>>, <<long_text>>)
    /\ merged_value(ka) = long_text

ExpertRoundEnd == agent = "expert" /\ pc = "round_end"

\* an attempt of an Expert round that returned a non-empty result
ExpertAttemptReplied ==
    agent = "expert" /\ pc = "attempt" /\ attempt' = attempt + 1
        /\ truthy(extracted')

\* C30 as stated: if some attempt of an Expert round was judged valid, the
\* best result the round returns is a valid attempt.
C30_ValidAttemptReturned ==
    (ExpertRoundEnd /\ round_valid) => (best_extraction # None /\ best_valid)

\* C30: an Expert round returns the attempt of highest confidence, valid or
\* not, the earliest among equals: an attempt of higher confidence than the
\* held best replaces it whatever the validity of either, any other attempt
\* leaves it; so when some attempt was valid the round returns a result of
\* at least the confidence of every valid attempt, which is a valid attempt
\* unless an invalid attempt had a higher confidence, or the same one earlier.
C30_HighestConfidenceReturned ==
    [][/\ ExpertAttemptReplied =>
             /\ IF RGT(confidence', best_confidence)
                THEN /\ best_extraction' = extracted'
                     /\ best_confidence' = confidence'
                     /\ best_valid' = is_valid'
                ELSE UNCHANGED <<best_extraction, best_confidence, best_valid>>
             /\ is_valid' => RGE(best_confidence', confidence')
             /\ round_valid' = (round_valid \/ is_valid')
       /\ (agent = "expert" /\ pc = "attempt" /\ ~truthy(extracted')) =>
             UNCHANGED <<best_extraction, best_confidence, best_valid, round_valid>>
       /\ (agent' = "expert" /\ pc' = "round_end" /\ round_valid') =>
             /\ best_extraction' # None
             /\ RGE(best_confidence', ValidConfidence)]_vars

\* a valid attempt at 0.6 was followed by an invalid one at 19/30, and the
\* round returns the invalid one
C30_Witness ==
    /\ ExpertRoundEnd /\ round_valid /\ ~best_valid /\ ~is_valid
    /\ round_calls = 2
    /\ REQ(best_confidence, Rat(19, 30))
    /\ best_extraction = extracted

====
